---------------------------- MODULE Spec2Model ----------------------------
(***************************************************************************)
(* A model of src/src/main.rs: the Guild Wars 2 randomizer-template        *)
(* generator.  One run of main() is a state machine: the character-name    *)
(* request, three fan-out stages (character core data, seasons, quest      *)
(* batches) around the quest-id request, then the per-character            *)
(* aggregation loop with its completed-quest request, then the write of    *)
(* the output document.  Every unwrap()/index panic of the source is a     *)
(* transition to the "aborted" stage.                                      *)
(*                                                                         *)
(* Option<T> is modelled as a set with at most one element: None is {},    *)
(* Some(x) is {x}.  A HashMap is a function; a HashSet is a set.           *)
(***************************************************************************)
EXTENDS Integers, Sequences, FiniteSets, TLC

(***************************************************************************)
(* Bounds of the model (the environment the run is checked against).       *)
(***************************************************************************)
\* most characters in one input document
MaxChars == 2
\* longest quest-id catalog the remote answers with
MaxCatalog == 201
\* most season answers of one run whose id is not the id that was asked for
MaxMisfiled == 1

(***************************************************************************)
(* Program constants.                                                      *)
(***************************************************************************)
\* const fn default_weight() -> u32 {50}
default_weight == 50
\* quest_ids.as_slice().chunks(100)
ChunkSize == 100
\* the ten variants of enum Storyline, in declaration (= iteration) order
NumStorylines == 10

Storylines == 1..NumStorylines

Storyline_id(s) ==
    CASE s = 1 -> "215AAA0F-CDAC-4F93-86DA-C155A99B5784"
      [] s = 2 -> "A49D0CD7-E725-4141-8E10-180F1CED7CAF"
      [] s = 3 -> "A515A1D3-4BD7-4594-AE30-2C5D05FF5960"
      [] s = 4 -> "B8901E58-DC9D-4525-ADB2-79C93593291E"
      [] s = 5 -> "09766A86-D88D-4DF2-9385-259E9A8CA583"
      [] s = 6 -> "EAB597C0-C484-4FD3-9430-31433BAC81B6"
      [] s = 7 -> "C22AFD21-667A-4AA8-8210-AC74EAEE58BB"
      [] s = 8 -> "EDCAE800-302A-4D9B-8331-3CC769ADA0B3"
      [] s = 9 -> "D1B709AB-92B6-4EE9-8B40-2B7C628E5022"
      [] s = 10 -> "AEE99452-D323-4ABB-8F49-D7C0A752CBD1"

Storyline_snake_case(s) ==
    CASE s = 1 -> "core"
      [] s = 2 -> "season_1"
      [] s = 3 -> "season_2"
      [] s = 4 -> "heart_of_thorns"
      [] s = 5 -> "season_3"
      [] s = 6 -> "path_of_fire"
      [] s = 7 -> "season_4"
      [] s = 8 -> "icebrood_saga"
      [] s = 9 -> "end_of_dragons"
      [] s = 10 -> "secrets_of_the_obscure"

Storyline_default_weight(s) ==
    CASE s = 1 -> 1
      [] s = 2 -> 2
      [] s = 3 -> 4
      [] s = 4 -> 8
      [] s = 5 -> 16
      [] s = 6 -> 32
      [] s = 7 -> 64
      [] s = 8 -> 128
      [] s = 9 -> 256
      [] s = 10 -> 512

Storyline_max_quests(s) ==
    CASE s = 1 -> 49
      [] s = 2 -> 30
      [] s = 3 -> 32
      [] s = 4 -> 16
      [] s = 5 -> 36
      [] s = 6 -> 16
      [] s = 7 -> 30
      [] s = 8 -> 41
      [] s = 9 -> 27
      [] s = 10 -> 20


(***************************************************************************)
(* Small helpers for the collection types of the source.                   *)
(***************************************************************************)
\* HashMap::new()
EmptyMap == [k \in {} |-> 0]

\* HashMap::insert: a later value for the same key replaces the earlier one
MapInsert(m, k, v) == (k :> v) @@ m

\* the value inside Some(x)
Unwrap(opt) == CHOOSE x \in opt : TRUE

\* the elements of a sequence
Range(seq) == {seq[i] : i \in DOMAIN seq}

(***************************************************************************)
(* The environment: the input documents and the remote answers a run is    *)
(* checked against.                                                        *)
(***************************************************************************)
\* character names that occur in input documents and on the account
Names == {"Ann", "Bob"}

\* answers to GET /v2/characters: the account's character-name list
AccountLists == SUBSET Names

\* answer to GET /v2/characters/<name>/core
RemoteCharacter(name) ==
    IF name = "Ann"
    THEN [name |-> name, race |-> "Human", profession |-> "Guardian"]
    ELSE [name |-> name, race |-> "Asura", profession |-> "Engineer"]

\* the per-character entries an input document may hold: weight and
\* storyline are optional in the document
CharacterEntries ==
    { [weight |-> {}, storyline |-> {}],
      [weight |-> {7}, storyline |-> {("core" :> 5)}],
      [weight |-> {}, storyline |-> {("season_1" :> 3) @@ ("bogus" :> 9) @@ ("core" :> 5)}],
      [weight |-> {3}, storyline |-> {EmptyMap}] }

\* input.yaml's characters mapping, in document order: distinct names
InputDocs ==
    { doc \in UNION { [1..n -> [name : Names, entry : CharacterEntries]] : n \in 0..MaxChars } :
        \A i, j \in DOMAIN doc : doc[i].name = doc[j].name => i = j }

\* the story ids of the season of storyline s, as the remote holds them
SeasonStories(s) == IF s = 1 THEN {1, 11} ELSE {s}

\* the id a season answer carries when it is not the id that was asked for
AltSeasonId(s) == "alt-" \o Storyline_id(s)

\* the storylines whose season answer may carry another id
MisfileCandidates == {1, 2}

\* lengths of the quest-id catalog (GET /v2/quests); its ids are 1..n
CatalogSizes == {0, 18, ChunkSize, MaxCatalog}

\* the story of quest q, as the remote holds it: quests 1..17 belong to
\* Heart of Thorns (one more than its max_quests), quest 18 to Core
StoryOfQuest(q) ==
    IF q <= 17 THEN 4 ELSE IF q = 18 THEN 11 ELSE (q % 12) + 1

\* a quest id no catalog of the model holds
UncataloguedId == MaxCatalog + 1

\* answers to GET /v2/characters/<name>/quests: completed quest ids
CompletedChoices ==
    { {}, {1, 18}, 1..16, 1..17, {1, UncataloguedId} }

(***************************************************************************)
(* The state of one run.                                                   *)
(***************************************************************************)
VARIABLES
    input,                \* input.yaml: the characters mapping in document order
    stage,                \* the block of main() the run is in
    step,                 \* the position inside that block
    todo,                 \* items the dispatch loop of a fan-out has not reached
    tasks,                \* FuturesUnordered: spawned requests not yet consumed
    admitted,             \* admissions the rate limiter has granted
    sent,                 \* requests sent
    resolved,             \* answers received and deserialized
    failures,             \* answers that failed (transport or schema)
    character_names,      \* HashSet<String>: names whose core data is fetched
    characters,           \* HashMap<String, Character>
    seasons,              \* HashMap<String, Season>
    quest_ids,            \* Vec<u32>
    quests,               \* HashMap<u32, Quest>
    output,               \* Output.game_options
    remaining,            \* entries of input.characters not yet iterated
    cur,                  \* the character whose completed quests are awaited
    completed_quest_ids,  \* the completed-quest answers received, by name
    fetched,              \* names whose completed-quest request was sent
    written,              \* times gw2.yaml was written
    fatal                 \* why the run panicked, "none" while it has not

vars ==
    << input, stage, step, todo, tasks, admitted, sent, resolved,
       failures, character_names, characters, seasons, quest_ids, quests, output,
       remaining, cur, completed_quest_ids, fetched, written, fatal >>

\* CharacterInput with #[serde(default)] for the weight: u32's default, 0
CharacterInput_zero_default(entry) ==
    [ weight |-> IF entry.weight = {} THEN 0 ELSE Unwrap(entry.weight),
      storyline |-> entry.storyline ]

\* serde: CharacterInput, weight defaulting to default_weight()
CharacterInput(entry) ==
    [ weight |-> IF entry.weight = {} THEN default_weight ELSE Unwrap(entry.weight),
      storyline |-> entry.storyline ]

\* Input.characters: a HashMap, so the document's order is not kept
InputCharacters ==
    [ n \in {input[i].name : i \in DOMAIN input} |->
        CharacterInput(input[CHOOSE i \in DOMAIN input : input[i].name = n].entry) ]


\* Output::default(): game_options as OutputOptions::default() fills it.  The
\* tables new() leaves empty and default() does not touch stay empty.
OutputDefault ==
    [ progression_balancing |->
        ("random" :> 0) @@ ("random-low" :> 0) @@ ("random-high" :> 0)
          @@ ("disabled" :> 0) @@ ("normal" :> 50) @@ ("extreme" :> 0),
      accessibility |-> ("locations" :> 0) @@ ("items" :> 50) @@ ("minimal" :> 0),
      character |-> EmptyMap,
      triggers |-> << >>,
      character_profession |-> EmptyMap,
      character_race |-> EmptyMap,
      starting_mainhand_weapon |->
        ("none" :> 0) @@ ("axe" :> 0) @@ ("dagger" :> 0) @@ ("mace" :> 0)
          @@ ("pistol" :> 0) @@ ("sword" :> 0) @@ ("scepter" :> 0)
          @@ ("greatsword" :> 0) @@ ("hammer" :> 0) @@ ("longbow" :> 0)
          @@ ("rifle" :> 0) @@ ("short_bow" :> 0) @@ ("staff" :> 0)
          @@ ("random_proficient" :> 50)
          @@ ("random_proficient_one_handed" :> 0)
          @@ ("random_proficient_two_handed" :> 0),
      starting_offhand_weapon |->
        ("none" :> 0) @@ ("scepter" :> 0) @@ ("focus" :> 0) @@ ("shield" :> 0)
          @@ ("torch" :> 0) @@ ("warhorn" :> 0) @@ ("random_proficient" :> 50),
      group_content |-> ("none" :> 50) @@ ("five_man" :> 25) @@ ("ten_man" :> 10),
      include_competitive |-> ("false" :> 50) @@ ("true" :> 10),
      achievement_weight |->
        ("500" :> 50) @@ ("random" :> 0) @@ ("random-low" :> 0)
          @@ ("random-high" :> 0),
      quest_weight |->
        ("100" :> 50) @@ ("random" :> 0) @@ ("random-low" :> 0)
          @@ ("random-high" :> 0),
      training_weight |->
        ("100" :> 50) @@ ("random" :> 0) @@ ("random-low" :> 0)
          @@ ("random-high" :> 0),
      world_boss_weight |->
        ("250" :> 50) @@ ("random" :> 0) @@ ("random-low" :> 0)
          @@ ("random-high" :> 0),
      storyline |-> EmptyMap,
      required_mist_fragments |-> 10,
      extra_mist_fragments |-> 5,
      heal_skill |-> ("randomize" :> 1) @@ ("early" :> 10) @@ ("starting" :> 50),
      gear_slots |-> ("randomize" :> 5) @@ ("early" :> 50) @@ ("starting" :> 10) ]

Init ==
    /\ input \in InputDocs
    /\ stage = "names"
    /\ step = "admit"
    /\ todo = {}
    /\ tasks = {}
    /\ admitted = 0
    /\ sent = 0
    /\ resolved = 0
    /\ failures = 0
    /\ character_names = {}
    /\ characters = EmptyMap
    /\ seasons = EmptyMap
    /\ quest_ids = << >>
    /\ quests = EmptyMap
    /\ output = OutputDefault
    /\ remaining = {}
    /\ cur = {}
    /\ completed_quest_ids = EmptyMap
    /\ fetched = {}
    /\ written = 0
    /\ fatal = "none"

(***************************************************************************)
(* A panic: every unwrap() on an Err/None and every index of a missing     *)
(* key ends the process.  Nothing of the run's memory outlives it; what    *)
(* stays is the input, the file system (written) and the                   *)
(* record of why (fatal) and of failed answers (failures).                 *)
(***************************************************************************)
Panic(cause, failed) ==
    /\ stage' = "aborted"
    /\ step' = "-"
    /\ fatal' = cause
    /\ failures' = failures + failed
    /\ todo' = {}
    /\ tasks' = {}
    /\ admitted' = 0
    /\ sent' = 0
    /\ resolved' = 0
    /\ character_names' = {}
    /\ characters' = EmptyMap
    /\ seasons' = EmptyMap
    /\ quest_ids' = << >>
    /\ quests' = EmptyMap
    /\ output' = OutputDefault
    /\ remaining' = {}
    /\ cur' = {}
    /\ completed_quest_ids' = EmptyMap
    /\ fetched' = {}
    /\ UNCHANGED << input, written >>

\* the ways one request can fail: send() errs, or json() does not deserialize
FailureKinds == {"transport", "schema"}

\* get on a limiter that admits a caller only while no request is in flight
get_when_idle ==
    /\ step = "admit"
    /\ tasks = {}
    /\ admitted' = admitted + 1
    /\ step' = "send"
    /\ UNCHANGED << input, stage, todo, tasks, sent, resolved,
                    failures, character_names, characters, seasons, quest_ids,
                    quests, output, remaining, cur, completed_quest_ids, fetched,
                    written, fatal >>

(***************************************************************************)
(* RateLimitedReqwestClient::get: the caller waits until the one limiter   *)
(* admits it, then builds the request.  Every request of main() goes       *)
(* through it.                                                             *)
(***************************************************************************)
get ==
    /\ step = "admit"
    /\ admitted' = admitted + 1
    /\ step' = "send"
    /\ UNCHANGED << input, stage, todo, tasks, sent, resolved,
                    failures, character_names, characters, seasons, quest_ids,
                    quests, output, remaining, cur, completed_quest_ids, fetched,
                    written, fatal >>


(***************************************************************************)
(* let character_names = { ... }: the account's character list, narrowed   *)
(* to the selection when the selection is not empty.                       *)
(***************************************************************************)
NamesSend ==
    /\ stage = "names"
    /\ step = "send"
    /\ sent' = sent + 1
    /\ step' = "recv"
    /\ UNCHANGED << input, stage, todo, tasks, admitted, resolved,
                    failures, character_names, characters, seasons, quest_ids,
                    quests, output, remaining, cur, completed_quest_ids, fetched,
                    written, fatal >>

\* FilterNames that filters by the selection even when the selection is empty
FilterNames_always_filter(list) ==
    {c \in list : c \in DOMAIN InputCharacters}

\* if input.characters.len() > 0 { drain().filter(contains_key) } else { all }
FilterNames(list) ==
    IF Cardinality(DOMAIN InputCharacters) > 0
    THEN {c \in list : c \in DOMAIN InputCharacters}
    ELSE list

NamesRecv ==
    /\ stage = "names"
    /\ step = "recv"
    /\ \/ \E kind \in FailureKinds : Panic(kind, 1)
       \/ \E list \in AccountLists :
            /\ character_names' = list
            /\ resolved' = resolved + 1
            /\ step' = "filter"
            /\ UNCHANGED << input, stage, todo, tasks, admitted, sent, failures,
                            characters, seasons, quest_ids, quests, output,
                            remaining, cur, completed_quest_ids, fetched, written,
                            fatal >>

\* let character_names = if input.characters.len() > 0 {..} else {..}: the
\* account's list, narrowed to the selection when there is one
NamesFilter ==
    /\ stage = "names"
    /\ step = "filter"
    /\ character_names' = FilterNames(character_names)
    \* an empty name set dispatches nothing and collects nothing
    /\ stage' = IF FilterNames(character_names) = {} THEN "seasons" ELSE "chars"
    /\ todo' = IF FilterNames(character_names) = {}
               THEN Storylines ELSE FilterNames(character_names)
    /\ step' = "admit"
    /\ UNCHANGED << input, tasks, admitted, sent, resolved, failures,
                    characters, seasons, quest_ids, quests, output,
                    remaining, cur, completed_quest_ids, fetched, written,
                    fatal >>

(***************************************************************************)
(* A fan-out stage spawns one request per item, each after its own         *)
(* admission, and only then collects the answers in completion order.      *)
(***************************************************************************)
\* tasks.push(tokio::spawn(reqwest_client.get(uri).await.send())), after get
Spawn(item) ==
    /\ sent' = sent + 1
    /\ tasks' = tasks \cup {item}
    /\ todo' = todo \ {item}
    /\ step' = IF todo \ {item} = {} THEN "collect" ELSE "admit"
    /\ UNCHANGED << input, stage, admitted, resolved, failures,
                    character_names, characters, seasons, quest_ids, quests,
                    output, remaining, cur, completed_quest_ids, fetched, written,
                    fatal >>

\* CharsSpawn that builds its request on the bare reqwest client, without get
CharsSpawn_without_get ==
    /\ stage = "chars"
    /\ step = "admit"
    /\ \E name \in todo : Spawn(name)

\* for name in &character_names: a HashSet, iterated in any order
CharsSpawn ==
    /\ stage = "chars"
    /\ step = "send"
    /\ \E name \in todo : Spawn(name)

\* CharsCollect with `if let` for `while let`: the first answer that arrives
\* is inserted and the run moves on, whatever is still in flight
CharsCollect_first_only ==
    /\ stage = "chars"
    /\ step = "collect"
    /\ \E name \in tasks :
         \/ \E kind \in FailureKinds : Panic(kind, 1)
         \/ /\ characters' =
                 MapInsert(characters, RemoteCharacter(name).name, RemoteCharacter(name))
            /\ tasks' = {}
            /\ resolved' = resolved + 1
            /\ stage' = "seasons"
            /\ step' = "admit"
            /\ todo' = Storylines
            /\ UNCHANGED << input, admitted, sent, failures,
                            character_names, seasons, quest_ids, quests, output,
                            remaining, cur, completed_quest_ids, fetched, written,
                            fatal >>

\* while let Some(finished_task) = tasks.next().await: one iteration
CharsCollect ==
    /\ stage = "chars"
    /\ step = "collect"
    /\ \E name \in tasks :
         \/ \E kind \in FailureKinds : Panic(kind, 1)
         \/ /\ characters' =
                 MapInsert(characters, RemoteCharacter(name).name, RemoteCharacter(name))
            /\ tasks' = tasks \ {name}
            /\ resolved' = resolved + 1
            /\ stage' = IF tasks \ {name} = {} THEN "seasons" ELSE stage
            /\ step' = IF tasks \ {name} = {} THEN "admit" ELSE step
            /\ todo' = IF tasks \ {name} = {} THEN Storylines ELSE todo
            /\ UNCHANGED << input, admitted, sent, failures,
                            character_names, seasons, quest_ids, quests, output,
                            remaining, cur, completed_quest_ids, fetched, written,
                            fatal >>

\* the least item of a non-empty set of numbers: the next of an ordered loop
Least(S) == CHOOSE x \in S : \A y \in S : x <= y

\* for storyline in Storyline::iter(): in declaration order
SeasonsSpawn ==
    /\ stage = "seasons"
    /\ step = "send"
    /\ Spawn(Least(todo))

\* the keys of the season table that are the id of no Storyline
Misfiled == {k \in DOMAIN seasons : \A s \in Storylines : k # Storyline_id(s)}

\* the ids the remote may answer the season request of storyline s with
SeasonIds(s) ==
    {Storyline_id(s)} \cup
    (IF s \in MisfileCandidates /\ Cardinality(Misfiled) < MaxMisfiled
     THEN {AltSeasonId(s)} ELSE {})

\* SeasonsCollect that drops a failed answer (if let Ok(..)) and goes on
SeasonsCollect_skipping_failed ==
    /\ stage = "seasons"
    /\ step = "collect"
    /\ \E s \in tasks :
         /\ \/ /\ failures' = failures + 1
               /\ UNCHANGED << seasons, resolved >>
            \/ /\ seasons' = MapInsert(seasons, Storyline_id(s),
                                       [id |-> Storyline_id(s), story_ids |-> SeasonStories(s)])
               /\ resolved' = resolved + 1
               /\ UNCHANGED failures
         /\ tasks' = tasks \ {s}
         /\ stage' = IF tasks \ {s} = {} THEN "quest_ids" ELSE stage
         /\ step' = IF tasks \ {s} = {} THEN "admit" ELSE step
         /\ UNCHANGED << input, todo, admitted, sent, character_names, characters,
                         quest_ids, quests, output, remaining, cur,
                         completed_quest_ids, fetched, written, fatal >>

\* seasons.insert(season.id.clone(), season): keyed by the answer's own id
SeasonsCollect ==
    /\ stage = "seasons"
    /\ step = "collect"
    /\ \E s \in tasks :
         \/ \E kind \in FailureKinds : Panic(kind, 1)
         \/ \E id \in SeasonIds(s) :
              /\ seasons' = MapInsert(seasons, id, [id |-> id, story_ids |-> SeasonStories(s)])
              /\ tasks' = tasks \ {s}
              /\ resolved' = resolved + 1
              /\ stage' = IF tasks \ {s} = {} THEN "quest_ids" ELSE stage
              /\ step' = IF tasks \ {s} = {} THEN "admit" ELSE step
              /\ UNCHANGED << input, todo, admitted, sent, failures,
                              character_names, characters, quest_ids, quests,
                              output, remaining, cur, completed_quest_ids, fetched,
                              written, fatal >>

(***************************************************************************)
(* let quest_ids = { ... }: the whole quest-id catalog, one request.       *)
(***************************************************************************)
QuestIdsSend ==
    /\ stage = "quest_ids"
    /\ step = "send"
    /\ sent' = sent + 1
    /\ step' = "recv"
    /\ UNCHANGED << input, stage, todo, tasks, admitted, resolved,
                    failures, character_names, characters, seasons, quest_ids,
                    quests, output, remaining, cur, completed_quest_ids, fetched,
                    written, fatal >>

\* NumChunks that leaves out the last, shorter chunk (chunks_exact(100))
NumChunks_exact(n) == n \div ChunkSize

\* quest_ids.as_slice().chunks(100): the number of chunks of n ids
NumChunks(n) == (n + ChunkSize - 1) \div ChunkSize

\* the k-th chunk of ids
Chunk(ids, k) ==
    SubSeq(ids, (k - 1) * ChunkSize + 1,
           IF k * ChunkSize < Len(ids) THEN k * ChunkSize ELSE Len(ids))

\* where main() goes once the quest table is complete: the aggregation loop,
\* or straight to the write when input.characters is empty
AfterQuests ==
    /\ stage' = IF DOMAIN InputCharacters = {} THEN "write" ELSE "agg"
    /\ step' = IF DOMAIN InputCharacters = {} THEN "-" ELSE "next"
    /\ remaining' = DOMAIN InputCharacters

QuestIdsRecv ==
    /\ stage = "quest_ids"
    /\ step = "recv"
    /\ \/ \E kind \in FailureKinds : Panic(kind, 1)
       \/ \E n \in CatalogSizes :
            /\ quest_ids' = [i \in 1..n |-> i]
            /\ resolved' = resolved + 1
            /\ IF NumChunks(n) = 0
               THEN AfterQuests /\ todo' = {}
               ELSE /\ stage' = "quests"
                    /\ step' = "admit"
                    /\ todo' = 1..NumChunks(n)
                    /\ UNCHANGED remaining
            /\ UNCHANGED << input, tasks, admitted, sent, failures,
                            character_names, characters, seasons, quests, output,
                            cur, completed_quest_ids, fetched, written, fatal >>

\* for quest_chunk in quest_ids.as_slice().chunks(100): in catalog order
QuestsSpawn ==
    /\ stage = "quests"
    /\ step = "send"
    /\ Spawn(Least(todo))

\* the Vec<Quest> the remote answers the batch of chunk k with
QuestBatch(k) ==
    { [id |-> q, story_id |-> StoryOfQuest(q)] : q \in Range(Chunk(quest_ids, k)) }

\* quests.extend(element_vec.drain(..).map(|q| (q.id, q)))
Extend(map, batch) ==
    [ id \in DOMAIN map \cup {q.id : q \in batch} |->
        IF \E q \in batch : q.id = id
        THEN CHOOSE q \in batch : q.id = id
        ELSE map[id] ]

\* QuestsCollect that, when a batch request fails, drops the batches still in
\* flight and goes on to the aggregation
QuestsCollect_abandons_stage ==
    /\ stage = "quests"
    /\ step = "collect"
    /\ \E k \in tasks :
         \/ /\ tasks' = {}
            /\ failures' = failures + 1
            /\ AfterQuests
            /\ UNCHANGED << input, todo, admitted, sent, resolved,
                            character_names, characters, seasons, quest_ids,
                            quests, output, cur, completed_quest_ids, fetched,
                            written, fatal >>
         \/ /\ quests' = Extend(quests, QuestBatch(k))
            /\ tasks' = tasks \ {k}
            /\ resolved' = resolved + 1
            /\ IF tasks \ {k} = {}
               THEN AfterQuests
               ELSE UNCHANGED << stage, step, remaining >>
            /\ UNCHANGED << input, todo, admitted, sent, failures,
                            character_names, characters, seasons, quest_ids,
                            output, cur, completed_quest_ids, fetched, written,
                            fatal >>

QuestsCollect ==
    /\ stage = "quests"
    /\ step = "collect"
    /\ \E k \in tasks :
         \/ \E kind \in FailureKinds : Panic(kind, 1)
         \/ /\ quests' = Extend(quests, QuestBatch(k))
            /\ tasks' = tasks \ {k}
            /\ resolved' = resolved + 1
            /\ IF tasks \ {k} = {}
               THEN AfterQuests
               ELSE UNCHANGED << stage, step, remaining >>
            /\ UNCHANGED << input, todo, admitted, sent, failures,
                            character_names, characters, seasons, quest_ids,
                            output, cur, completed_quest_ids, fetched, written,
                            fatal >>


(***************************************************************************)
(* Aggregation: for (character_name, character_options) in                 *)
(* input.characters.  The pieces of one iteration first.                   *)
(***************************************************************************)
\* Trigger::new plus its one "Guild Wars 2" options table
Trigger(option_name, option_result, options) ==
    [ option_category |-> "Guild Wars 2",
      option_name |-> option_name,
      option_result |-> option_result,
      options |-> ("Guild Wars 2" :> options) ]

\* characters.get(&character_name)
character_lookup(name) ==
    IF name \in DOMAIN characters THEN {characters[name]} ELSE {}

\* profession_of with another label for the character that is not found
profession_of_unknown(character) ==
    IF character # {} THEN Unwrap(character).profession ELSE "unknown"

\* profession = character.profession.clone(), or "random"
profession_of(character) ==
    IF character # {} THEN Unwrap(character).profession ELSE "random"

\* race = character.race.clone(), or "random"
race_of(character) ==
    IF character # {} THEN Unwrap(character).race ELSE "random"

\* storyline_weight that gives a storyline missing from the override mapping
\* its static default weight instead of skipping it
storyline_weight_absent_defaults(options, s) ==
    IF options # {} /\ Storyline_snake_case(s) \in DOMAIN Unwrap(options)
    THEN {Unwrap(options)[Storyline_snake_case(s)]}
    ELSE {Storyline_default_weight(s)}

\* storyline_weight that takes the free function default_weight() for
\* Storyline::default_weight()
storyline_weight_flat_default(options, s) ==
    IF options # {}
    THEN IF Storyline_snake_case(s) \in DOMAIN Unwrap(options)
         THEN {Unwrap(options)[Storyline_snake_case(s)]}
         ELSE {}
    ELSE {default_weight}

\* the weight of storyline s for this character; {} stands for `continue`
storyline_weight(options, s) ==
    IF options # {}
    THEN IF Storyline_snake_case(s) \in DOMAIN Unwrap(options)
         THEN {Unwrap(options)[Storyline_snake_case(s)]}
         ELSE {}
    ELSE {Storyline_default_weight(s)}

\* season_lookup that falls back to an empty Season (get().unwrap_or_default())
season_lookup_or_default(s) ==
    IF Storyline_id(s) \in DOMAIN seasons
    THEN {seasons[Storyline_id(s)]}
    ELSE {[id |-> Storyline_id(s), story_ids |-> {}]}

\* &seasons[storyline.id()]: {} stands for the panic of indexing a missing key
season_lookup(s) ==
    IF Storyline_id(s) \in DOMAIN seasons THEN {seasons[Storyline_id(s)]} ELSE {}

\* quests[q] for some completed q panics: the key is not in the quest table
quest_index_panics(completed) ==
    \E c \in completed : \E q \in c : q \notin DOMAIN quests

\* filter_count that counts the distinct story ids reached, not the quest ids
filter_count_distinct_stories(ids, season) ==
    Cardinality({quests[q].story_id : q \in ids} \cap season.story_ids)

\* completed.iter().filter(|&q| season.story_ids.contains(&quests[q].story_id)).count()
RECURSIVE filter_count(_, _)
filter_count(ids, season) ==
    IF ids = {} THEN 0
    ELSE LET q == CHOOSE x \in ids : TRUE
         IN  (IF quests[q].story_id \in season.story_ids THEN 1 ELSE 0)
               + filter_count(ids \ {q}, season)

\* let completed_count = if let Some(completed) = ... else { 0 }
completed_count(completed, season) ==
    IF completed # {} THEN filter_count(Unwrap(completed), season) ELSE 0

\* a usize that is carry * 2^64 + low: low is the exact difference, carry is 1
\* when the subtraction wrapped (a build without overflow checks)
usize_sub(a, b) == [carry |-> IF a >= b THEN 0 ELSE 1, low |-> a - b]

\* format!("{} {}", storyline.snake_case(), character_name)
intermediate_option_result(s, name) == Storyline_snake_case(s) \o " " \o name

\* the storyline Trigger of one included storyline
quest_trigger(s, name, count) ==
    Trigger("storyline", intermediate_option_result(s, name),
            [ max_quests |-> usize_sub(Storyline_max_quests(s), count),
              storyline |-> Storyline_snake_case(s) ])

\* for storyline in Storyline::iter() { ... }: acc is what the loop has built
\* so far, acc.panic the panic that ended it.  overflow_checks is the build:
\* TRUE when an overflowing subtraction panics, FALSE when it wraps
RECURSIVE StorylineLoop(_, _, _, _, _, _)
StorylineLoop(s, name, options, completed, overflow_checks, acc) ==
    IF s > NumStorylines \/ acc.panic # "none" THEN acc
    ELSE IF storyline_weight(options, s) = {}
    THEN StorylineLoop(s + 1, name, options, completed, overflow_checks, acc)
    ELSE IF season_lookup(s) = {}
    THEN [acc EXCEPT !.panic = "missing_season"]
    ELSE IF quest_index_panics(completed)
    THEN [acc EXCEPT !.panic = "missing_quest"]
    ELSE LET count == completed_count(completed, Unwrap(season_lookup(s)))
         IN  IF count > Storyline_max_quests(s) /\ overflow_checks
             THEN [acc EXCEPT !.panic = "subtract_overflow"]
             ELSE StorylineLoop(s + 1, name, options, completed, overflow_checks,
                    [ acc EXCEPT
                        !.table = MapInsert(@, intermediate_option_result(s, name),
                                            Unwrap(storyline_weight(options, s))),
                        !.triggers = Append(@, quest_trigger(s, name, count)) ])

\* the character Trigger: profession, race and storyline tables
character_trigger(name, character, table) ==
    Trigger("character", name,
            [ character_profession |-> (profession_of(character) :> default_weight),
              character_race |-> (race_of(character) :> default_weight),
              storyline |-> table ])

\* push_triggers that also merges the Trigger's profession, race and storyline
\* tables into the top-level tables of the same names
push_triggers_and_merge(out, trigger, storyline_triggers) ==
    [ out EXCEPT
        !.triggers = (@ \o << trigger >>) \o storyline_triggers,
        !.character_profession = trigger.options["Guild Wars 2"].character_profession @@ @,
        !.character_race = trigger.options["Guild Wars 2"].character_race @@ @,
        !.storyline = trigger.options["Guild Wars 2"].storyline @@ @ ]

\* output.game_options.triggers.push(trigger), then .extend(storyline_triggers)
push_triggers(out, trigger, storyline_triggers) ==
    [ out EXCEPT !.triggers = (@ \o << trigger >>) \o storyline_triggers ]

\* the rest of one iteration, from the profession/race inserts to the two
\* pushes; out is the output so far, answers the answers this step received
FinishCharacter(name, completed, out, answers, overflow_checks) ==
    LET loop == StorylineLoop(1, name, InputCharacters[name].storyline, completed,
                              overflow_checks,
                              [panic |-> "none", table |-> EmptyMap, triggers |-> << >>])
    IN  IF loop.panic # "none"
        THEN Panic(loop.panic, 0)
        ELSE /\ output' =
                  push_triggers(out,
                                character_trigger(name, character_lookup(name), loop.table),
                                loop.triggers)
             /\ remaining' = remaining \ {name}
             /\ cur' = {}
             /\ stage' = IF remaining \ {name} = {} THEN "write" ELSE "agg"
             /\ step' = IF remaining \ {name} = {} THEN "-" ELSE "next"
             /\ resolved' = resolved + answers
             /\ completed_quest_ids' =
                  IF completed = {} THEN completed_quest_ids
                  ELSE MapInsert(completed_quest_ids, name, Unwrap(completed))
             /\ UNCHANGED << input, todo, tasks, admitted, sent,
                             failures, character_names, characters, seasons,
                             quest_ids, quests, fetched, written, fatal >>

\* AggBegin that requests the completed quests of every selected character,
\* held by the account or not
AggBegin_fetches_all ==
    /\ stage = "agg"
    /\ step = "next"
    /\ \E name \in remaining :
         /\ output' = [output EXCEPT !.character =
                          MapInsert(@, name, InputCharacters[name].weight)]
         /\ cur' = {name}
         /\ remaining' = remaining \ {name}
         /\ step' = "admit"
         /\ UNCHANGED << input, stage, todo, tasks,
                         admitted, sent, resolved, failures,
                         character_names, characters, seasons, quest_ids,
                         quests, completed_quest_ids, fetched, written,
                         fatal >>

\* the start of one iteration: input.characters is a HashMap, iterated in any
\* order.  A character the account does not hold is finished in the same step;
\* a found one first awaits its completed-quest request.
AggBegin ==
    /\ stage = "agg"
    /\ step = "next"
    /\ \E name \in remaining :
         LET out == [output EXCEPT !.character =
                        MapInsert(@, name, InputCharacters[name].weight)]
         IN  IF character_lookup(name) # {}
             THEN /\ output' = out
                  /\ cur' = {name}
                  /\ remaining' = remaining \ {name}
                  /\ step' = "admit"
                  /\ UNCHANGED << input, stage, todo, tasks,
                                  admitted, sent, resolved, failures,
                                  character_names, characters, seasons, quest_ids,
                                  quests, completed_quest_ids, fetched, written,
                                  fatal >>
             ELSE \E overflow_checks \in BOOLEAN :
                    FinishCharacter(name, {}, out, 0, overflow_checks)

\* reqwest_client.get(uri).await.send(): the completed-quest request
CompletedSend ==
    /\ stage = "agg"
    /\ step = "send"
    /\ sent' = sent + 1
    /\ fetched' = fetched \cup cur
    /\ step' = "recv"
    /\ UNCHANGED << input, stage, todo, tasks, admitted, resolved,
                    failures, character_names, characters, seasons, quest_ids,
                    quests, output, remaining, cur, completed_quest_ids, written,
                    fatal >>

\* response.json::<HashSet<u32>>(), then the rest of the iteration
CompletedRecv ==
    /\ stage = "agg"
    /\ step = "recv"
    /\ \/ \E kind \in FailureKinds : Panic(kind, 1)
       \/ \E c \in CompletedChoices, overflow_checks \in BOOLEAN :
            FinishCharacter(Unwrap(cur), {c}, output, 1, overflow_checks)

\* File::create("gw2.yaml") and serde_yaml::to_writer(file, &output)
WriteOutput ==
    /\ stage = "write"
    /\ written' = written + 1
    /\ stage' = "done"
    /\ UNCHANGED << input, step, todo, tasks, admitted, sent,
                    resolved, failures, character_names, characters, seasons,
                    quest_ids, quests, output, remaining, cur,
                    completed_quest_ids, fetched, fatal >>

Next ==
    \/ get
    \/ NamesSend
    \/ NamesRecv
    \/ NamesFilter
    \/ CharsSpawn
    \/ CharsCollect
    \/ SeasonsSpawn
    \/ SeasonsCollect
    \/ QuestIdsSend
    \/ QuestIdsRecv
    \/ QuestsSpawn
    \/ QuestsCollect
    \/ AggBegin
    \/ CompletedSend
    \/ CompletedRecv
    \/ WriteOutput

Spec == Init /\ [][Next]_vars


\* the run under fairness: the limiter admits every caller in the end, every
\* request in flight resolves or fails, and main() keeps running
FairSpec == Spec /\ WF_vars(Next)

(***************************************************************************)
(* Vocabulary of the properties: how to read the output document.          *)
(***************************************************************************)
\* the option table a Trigger applies
Inner(t) == t.options["Guild Wars 2"]

\* the Triggers of the output, as a set
Triggers == Range(output.triggers)

\* the composite key "<storyline-key> <character-name>"
KeyOf(s, n) == Storyline_snake_case(s) \o " " \o n

\* the characters whose group has been appended to the trigger list
Aggregated ==
    {t.option_result : t \in {u \in Triggers : u.option_name = "character"}}

\* the character Trigger of n
CharacterTriggerOf(n) ==
    CHOOSE t \in Triggers : t.option_name = "character" /\ t.option_result = n

\* the storylines for which n has a storyline Trigger
EmittedStorylines(n) ==
    {s \in Storylines :
        \E t \in Triggers : t.option_name = "storyline" /\ t.option_result = KeyOf(s, n)}

\* the storyline Trigger of n for s
StorylineTriggerOf(s, n) ==
    CHOOSE t \in Triggers : t.option_name = "storyline" /\ t.option_result = KeyOf(s, n)

\* the selected characters the RemoteCharacter table has no record of
Absent == {n \in Aggregated : n \notin DOMAIN characters}

(***************************************************************************)
(* C1.  A completed-quest id that the quest catalog does not hold is left  *)
(* out of the count and does not abort the run.  Stated as: no run ends    *)
(* in the panic of indexing the quest table with a missing id.             *)
(***************************************************************************)
C1_UncataloguedIdDoesNotAbort == fatal # "missing_quest"

(***************************************************************************)
(* C2.  The emitted max_quests is storyline.max_quests - completed_count   *)
(* for every completed_count, also above the maximum: the run does not     *)
(* abort on the subtraction and the value written is that difference (not  *)
(* a wrapped one).                                                         *)
(***************************************************************************)
C2_MaxQuestsMayBeNegative ==
    /\ fatal # "subtract_overflow"
    /\ \A t \in Triggers :
         t.option_name = "storyline" => Inner(t).max_quests.carry = 0

(***************************************************************************)
(* C3.  A selected character with no record in the RemoteCharacter table   *)
(* gets the profession table {"random": 50} and the race table             *)
(* {"random": 50}, no completed-quest request is made for it, and every    *)
(* max_quests emitted for it is the storyline's static maximum.            *)
(***************************************************************************)
C3_AbsentCharacterFallback ==
    \A n \in Absent :
        /\ Inner(CharacterTriggerOf(n)).character_profession = ("random" :> 50)
        /\ Inner(CharacterTriggerOf(n)).character_race = ("random" :> 50)
        /\ n \notin fetched
        /\ n \notin DOMAIN completed_quest_ids
        /\ \A s \in EmittedStorylines(n) :
             Inner(StorylineTriggerOf(s, n)).max_quests
               = [carry |-> 0, low |-> Storyline_max_quests(s)]

\* an absent character went through aggregation with all ten storylines, next
\* to a found one whose completed quests were fetched
C3_Witness ==
    /\ stage = "done"
    /\ \E n \in Absent : EmittedStorylines(n) = Storylines
    /\ fetched # {}

(***************************************************************************)
(* C4.  For a found character whose completed-quest ids are all in the     *)
(* catalog, completed_count of an included storyline is the number of      *)
(* completed quest ids whose catalog story-id is in the storyline's        *)
(* season: one per quest id.  The count is read off the emitted            *)
(* max_quests, which is the static maximum minus the count.                *)
(***************************************************************************)
C4_CountIsPerQuestId ==
    \A n \in Aggregated \cap DOMAIN completed_quest_ids :
        completed_quest_ids[n] \subseteq DOMAIN quests =>
            \A s \in EmittedStorylines(n) :
                Storyline_max_quests(s) - Inner(StorylineTriggerOf(s, n)).max_quests.low
                  = Cardinality({q \in completed_quest_ids[n] :
                        quests[q].story_id \in seasons[Storyline_id(s)].story_ids})

\* a found character with several completed quests of one story was counted
C4_Witness ==
    /\ stage = "done"
    /\ \E n \in Aggregated \cap DOMAIN completed_quest_ids :
         /\ completed_quest_ids[n] \subseteq DOMAIN quests
         /\ 4 \in EmittedStorylines(n)
         /\ Inner(StorylineTriggerOf(4, n)).max_quests.low = 0


(***************************************************************************)
(* Positions in the trigger list.                                          *)
(***************************************************************************)
\* where the character Trigger of n stands
CharacterPositions(n) ==
    {i \in DOMAIN output.triggers :
        /\ output.triggers[i].option_name = "character"
        /\ output.triggers[i].option_result = n}

\* where the storyline Trigger of n for s stands
StorylinePositions(s, n) ==
    {i \in DOMAIN output.triggers :
        /\ output.triggers[i].option_name = "storyline"
        /\ output.triggers[i].option_result = KeyOf(s, n)}

\* where the Triggers of n's group stand
GroupPositions(n) ==
    CharacterPositions(n) \cup UNION {StorylinePositions(s, n) : s \in Storylines}

\* the storyline Triggers of n stand one per storyline of S, in enumeration order
OnePerStorylineInOrder(n, S) ==
    /\ \A s \in Storylines :
         Cardinality(StorylinePositions(s, n)) = IF s \in S THEN 1 ELSE 0
    /\ \A s1, s2 \in S :
         s1 < s2 => \A p \in StorylinePositions(s1, n), q \in StorylinePositions(s2, n) : p < q

\* the override mapping of n, when the input gives one
Override(n) == Unwrap(InputCharacters[n].storyline)

(***************************************************************************)
(* C5.  For a selected character with a storyline-override mapping, the    *)
(* storylines that produce an entry are exactly the known storylines whose *)
(* canonical key is in the mapping: each gives one storyline-table entry   *)
(* "<storyline-key> <character-name>" with the override weight and one     *)
(* storyline Trigger matched on that key, in enumeration order; absent     *)
(* storylines and unknown keys give nothing.                               *)
(***************************************************************************)
C5_OverrideSelectsStorylines ==
    \A n \in Aggregated :
        InputCharacters[n].storyline # {} =>
            LET S == {s \in Storylines : Storyline_snake_case(s) \in DOMAIN Override(n)}
                table == Inner(CharacterTriggerOf(n)).storyline
            IN  /\ DOMAIN table = {KeyOf(s, n) : s \in S}
                /\ \A s \in S : table[KeyOf(s, n)] = Override(n)[Storyline_snake_case(s)]
                /\ OnePerStorylineInOrder(n, S)

\* a character whose mapping names two storylines and an unknown key went
\* through aggregation, and so did one whose mapping is empty
C5_Witness ==
    /\ stage = "done"
    /\ \E n \in Aggregated :
         /\ InputCharacters[n].storyline # {}
         /\ "bogus" \in DOMAIN Override(n)
         /\ EmittedStorylines(n) = {1, 2}
    /\ \E n \in Aggregated :
         /\ InputCharacters[n].storyline # {}
         /\ EmittedStorylines(n) = {}

(***************************************************************************)
(* C6.  For a selected character without a storyline-override mapping,     *)
(* all 10 storylines are included in enumeration order with their static   *)
(* default weights 1, 2, 4, ..., 512: 10 storyline-table entries and 10    *)
(* storyline Triggers.                                                     *)
(***************************************************************************)
C6_NoOverrideIncludesAll ==
    \A n \in Aggregated :
        InputCharacters[n].storyline = {} =>
            LET table == Inner(CharacterTriggerOf(n)).storyline
            IN  /\ Cardinality(DOMAIN table) = 10
                /\ \A s \in 1..10 :
                     /\ KeyOf(s, n) \in DOMAIN table
                     /\ table[KeyOf(s, n)] = 2 ^ (s - 1)
                /\ OnePerStorylineInOrder(n, 1..10)
                /\ Cardinality(UNION {StorylinePositions(s, n) : s \in Storylines}) = 10

\* a character without a mapping went through aggregation and the document
\* was written
C6_Witness ==
    /\ stage = "done"
    /\ written = 1
    /\ \E n \in Aggregated :
         /\ InputCharacters[n].storyline = {}
         /\ EmittedStorylines(n) = Storylines

(***************************************************************************)
(* The shape of one character's group in the trigger list: the character   *)
(* Trigger once, first, then the group's storyline Triggers in enumeration *)
(* order, on consecutive positions.                                        *)
(***************************************************************************)
GroupShape(n) ==
    /\ Cardinality(CharacterPositions(n)) = 1
    /\ \A p \in CharacterPositions(n), q \in GroupPositions(n) : p <= q
    /\ OnePerStorylineInOrder(n, EmittedStorylines(n))
    /\ \A p, q \in GroupPositions(n) :
         \A i \in p..q : i \in GroupPositions(n)

GroupsAreContiguous == \A n \in Aggregated : GroupShape(n)

(***************************************************************************)
(* C7.  For two selected characters A then B in input order, every         *)
(* Trigger of A precedes every Trigger of B; within a group the character  *)
(* Trigger is first, its storyline Triggers follow in enumeration order,   *)
(* and no other character's Trigger is interleaved.                        *)
(***************************************************************************)
C7_GroupsFollowInputOrder ==
    /\ \A n \in Aggregated : GroupShape(n)
    /\ \A i, j \in DOMAIN input :
         (i < j /\ input[i].name \in Aggregated /\ input[j].name \in Aggregated) =>
             \A p \in GroupPositions(input[i].name), q \in GroupPositions(input[j].name) :
                 p < q

(***************************************************************************)
(* C8.  The output document is a function of the input document and the    *)
(* remote answers alone: whatever order the run iterates its keyed         *)
(* collections in, the character groups of the written document appear in  *)
(* the one order the input document fixes.                                 *)
(***************************************************************************)
C8_OutputOrderIsDetermined ==
    stage = "done" =>
        \A i \in DOMAIN input :
            CharacterPositions(input[i].name)
              = {1 + Cardinality(UNION {GroupPositions(input[j].name) : j \in 1..(i - 1)})}


(***************************************************************************)
(* The requests a complete run makes: the character list, one per fetched  *)
(* name, one per storyline, the quest-id catalog, one per batch, and one   *)
(* per selected character that was found.                                  *)
(***************************************************************************)
RequestsOfACompleteRun ==
    1 + Cardinality(character_names) + 10 + 1
      + ((Len(quest_ids) + 99) \div 100)
      + Cardinality({input[i].name : i \in DOMAIN input} \cap DOMAIN characters)

(***************************************************************************)
(* C9.  The output document is written at most once, and only when every   *)
(* request of every stage has resolved and deserialized; once one request  *)
(* has failed, by transport or by schema, the run is aborted and the       *)
(* document is never written.                                              *)
(***************************************************************************)
C9_WrittenOnlyAfterEveryRequest ==
    /\ written <= 1
    /\ failures > 0 => (stage = "aborted" /\ written = 0)
    /\ stage = "aborted" => written = 0
    /\ written = 1 =>
         /\ stage = "done"
         /\ fatal = "none"
         /\ tasks = {}
         /\ todo = {}
         /\ sent = RequestsOfACompleteRun
         /\ resolved = sent
         /\ admitted = sent
         /\ DOMAIN characters = character_names
         /\ Cardinality(DOMAIN seasons) = 10
         /\ DOMAIN quests = Range(quest_ids)
         /\ DOMAIN completed_quest_ids
              = {input[i].name : i \in DOMAIN input} \cap DOMAIN characters

\* the document was written after a run that made requests in every stage:
\* two characters, three quest batches, two completed-quest requests
C9_Witness ==
    /\ written = 1
    /\ Cardinality(DOMAIN characters) = 2
    /\ Len(quest_ids) > 2 * ChunkSize
    /\ Cardinality(DOMAIN completed_quest_ids) = 2

\* a request failed and the run was aborted
C9_AbortWitness ==
    /\ failures > 0
    /\ stage = "aborted"

\* the storylines the loop of character n reaches: all when the input gives no
\* override mapping, those whose key the mapping holds otherwise
Reached(n) ==
    {s \in Storylines :
        \/ InputCharacters[n].storyline = {}
        \/ Storyline_snake_case(s) \in DOMAIN Override(n)}

\* the storylines whose id is no key of the season table
SeasonMissing == {s \in Storylines : Storyline_id(s) \notin DOMAIN seasons}

(***************************************************************************)
(* C10 as claimed.  If, after the season stage, one of the 10 storylines   *)
(* has no Season keyed by its id, the run fails and writes no output       *)
(* document, whatever the selection is: no run reaches the write with a    *)
(* storyline's Season missing.                                             *)
(***************************************************************************)
C10_AnyMissingSeasonIsFatal ==
    stage \in {"write", "done"} => SeasonMissing = {}

(***************************************************************************)
(* C10 as amended.  If a storyline that the aggregation loop reaches for   *)
(* some selected character (every storyline for a character without an     *)
(* override mapping, the storylines whose key the mapping holds otherwise)  *)
(* has no Season keyed by its id, the run fails and writes no output       *)
(* document.  A storyline no selected character reaches is never looked    *)
(* up, and its missing Season does not stop the run.                       *)
(***************************************************************************)
C10_ReachedMissingSeasonIsFatal ==
    stage \in {"write", "done"} =>
        \A n \in DOMAIN InputCharacters : Reached(n) \cap SeasonMissing = {}

\* the run panicked on the season of a storyline that the loop reached
C10_Witness ==
    /\ stage = "aborted"
    /\ fatal = "missing_season"
    /\ written = 0


\* the selected character names, as the input document lists them
Selected == {input[i].name : i \in DOMAIN input}

\* the entry of the input document for n
EntryOf(n) == input[CHOOSE i \in DOMAIN input : input[i].name = n].entry

(***************************************************************************)
(* C11.  For every selected character the top-level character table holds  *)
(* one entry, name -> the weight the user gave (50 when none is given),    *)
(* and the trigger list holds exactly one "character" Trigger matched on   *)
(* the name, whose profession table and race table hold one entry each,    *)
(* of weight 50: the remote profession and race when the character was     *)
(* found, "random" otherwise.                                              *)
(***************************************************************************)
C11_CharacterEntryAndTrigger ==
    /\ stage \in {"write", "done"} =>
         /\ DOMAIN output.character = Selected
         /\ Aggregated = Selected
    /\ \A n \in Aggregated :
         /\ n \in DOMAIN output.character
         /\ output.character[n]
              = IF EntryOf(n).weight = {} THEN 50 ELSE Unwrap(EntryOf(n).weight)
         /\ Cardinality(CharacterPositions(n)) = 1
         /\ LET found == n \in DOMAIN characters
                t == Inner(CharacterTriggerOf(n))
            IN  /\ t.character_profession
                     = ((IF found THEN characters[n].profession ELSE "random") :> 50)
                /\ t.character_race
                     = ((IF found THEN characters[n].race ELSE "random") :> 50)

\* the document was written for a found character without a weight and an
\* absent character with one
C11_Witness ==
    /\ stage = "done"
    /\ \E n \in Aggregated :
         /\ n \in DOMAIN characters
         /\ EntryOf(n).weight = {}
         /\ Inner(CharacterTriggerOf(n)).character_profession = ("Guardian" :> 50)
    /\ \E n \in Aggregated :
         /\ n \notin DOMAIN characters
         /\ output.character[n] = 7

(***************************************************************************)
(* C12.  Every request of the run, in every stage, is sent only after the  *)
(* one rate limiter has admitted it: the requests sent never outnumber the *)
(* admissions granted, and a request is sent only from the position that   *)
(* follows an admission.                                                   *)
(***************************************************************************)
C12_SentOnlyAfterAdmission ==
    /\ [](sent <= admitted)
    /\ [][sent' > sent => (step = "send" /\ sent < admitted /\ sent' = sent + 1)]_vars

\* requests of every stage were sent, each on its own admission
C12_Witness ==
    /\ stage = "done"
    /\ sent = admitted
    /\ fetched # {}
    /\ Len(quest_ids) > ChunkSize
    /\ sent = RequestsOfACompleteRun


\* the fan-out stage the run is dispatching in
Dispatching(stg) == stage = stg /\ step \in {"admit", "send"}

(***************************************************************************)
(* C13.  Within a fan-out stage admission is serialized but execution is   *)
(* not: one request at a time waits for or holds an admission, and the     *)
(* next one starts its wait only when the one before has been admitted and *)
(* sent; the wait is granted whatever is still in flight, so during the    *)
(* dispatch loop every request sent so far in the stage is still           *)
(* unconsumed.                                                             *)
(***************************************************************************)
C13_AdmissionSerializedExecutionNot ==
    /\ step = "admit" => (admitted = sent /\ ENABLED get)
    /\ step = "send" => admitted = sent + 1
    /\ step \notin {"admit", "send"} => admitted = sent
    /\ Dispatching("chars") =>
         (tasks \cap todo = {} /\ tasks \cup todo = character_names)
    /\ Dispatching("seasons") =>
         (tasks \cap todo = {} /\ tasks \cup todo = 1..10)
    /\ Dispatching("quests") =>
         (tasks \cap todo = {} /\ tasks \cup todo = 1..((Len(quest_ids) + 99) \div 100))

\* the next season request waits for its admission while two or more admitted
\* requests of the stage are still in flight
C13_Witness ==
    /\ stage = "seasons"
    /\ step = "admit"
    /\ Cardinality(tasks) >= 2
    /\ todo # {}


\* the stages that come after the character stage, the season stage, the
\* quest stage
AfterCharacterStage == {"seasons", "quest_ids", "quests", "agg", "write", "done"}

AfterSeasonStage == {"quest_ids", "quests", "agg", "write", "done"}

AfterQuestStage == {"agg", "write", "done"}

(***************************************************************************)
(* C14.  Each fan-out stage is a barrier.  Once the run is past a stage,   *)
(* the table of that stage holds the answer of every request the stage     *)
(* dispatched, whatever order they completed in; outside the three         *)
(* fan-out stages no spawned request is pending, so no stage starts        *)
(* dispatching over an earlier stage's request; and a table is written     *)
(* only by the collect loop of its own stage, one table per step.          *)
(***************************************************************************)
C14_StagesAreBarriers ==
    /\ [](/\ stage \in AfterCharacterStage => DOMAIN characters = character_names
          /\ stage \in AfterSeasonStage => Cardinality(DOMAIN seasons) = 10
          /\ stage \in AfterQuestStage => DOMAIN quests = Range(quest_ids)
          /\ stage \notin {"chars", "seasons", "quests"} => (tasks = {} /\ todo = {})
          /\ (stage = "seasons" /\ todo = 1..10) => tasks = {}
          /\ (stage = "quests" /\ todo = 1..((Len(quest_ids) + 99) \div 100)) => tasks = {})
    /\ [][stage' # "aborted" =>
            /\ characters' # characters =>
                 (stage = "chars" /\ step = "collect" /\ UNCHANGED << seasons, quests >>)
            /\ seasons' # seasons =>
                 (stage = "seasons" /\ step = "collect" /\ UNCHANGED << characters, quests >>)
            /\ quests' # quests =>
                 (stage = "quests" /\ step = "collect" /\ UNCHANGED << characters, seasons >>)
         ]_vars

\* aggregation reads the three tables after two character answers, ten season
\* answers and three quest batches
C14_Witness ==
    /\ stage = "agg"
    /\ Cardinality(DOMAIN characters) = 2
    /\ Cardinality(DOMAIN seasons) = 10
    /\ Cardinality(DOMAIN quests) > 2 * ChunkSize


\* the number of batches of a catalog of n ids: the least m with 100 * m >= n
BatchesOf(n) == CHOOSE m \in 0..n : 100 * m >= n /\ (m = 0 \/ 100 * (m - 1) < n)

\* the catalog positions of batch k of a catalog of n ids
BatchPositions(k, n) == {i \in 1..n : 100 * (k - 1) < i /\ i <= 100 * k}

\* the batches whose answer has been inserted
Collected == (1..BatchesOf(Len(quest_ids))) \ (tasks \cup todo)

(***************************************************************************)
(* C15.  For a quest-id catalog of n ids the quest-detail stage dispatches *)
(* exactly ceil(n/100) batch requests, none when n = 0; every batch        *)
(* carries between 1 and 100 ids; every catalog id is in exactly one       *)
(* batch, in catalog order.                                                *)
(***************************************************************************)
C15_BatchesCoverCatalog ==
    LET n == Len(quest_ids)
        m == BatchesOf(n)
    IN  /\ stage = "quests" =>
             /\ n > 0
             /\ tasks \cup todo \subseteq 1..m
             /\ tasks \cap todo = {}
             /\ \A k \in 1..m :
                  /\ Len(Chunk(quest_ids, k)) \in 1..100
                  /\ Len(Chunk(quest_ids, k)) = Cardinality(BatchPositions(k, n))
                  /\ \A i \in 1..Len(Chunk(quest_ids, k)) :
                       Chunk(quest_ids, k)[i] = quest_ids[100 * (k - 1) + i]
             /\ DOMAIN quests
                  = {quest_ids[i] : i \in UNION {BatchPositions(k, n) : k \in Collected}}
             /\ sent
                  = 1 + Cardinality(character_names) + 10 + 1
                      + Cardinality((1..m) \ todo)
        /\ stage \in AfterQuestStage =>
             /\ DOMAIN quests = Range(quest_ids)
             /\ sent = 1 + Cardinality(character_names) + 10 + 1 + m
                         + Cardinality(fetched)

\* a catalog of more than two full batches was fetched in three batches, the
\* last one short; and a run with an empty catalog skipped the stage
C15_Witness ==
    /\ stage \in AfterQuestStage
    /\ Len(quest_ids) > 2 * ChunkSize
    /\ Len(quest_ids) < 3 * ChunkSize
    /\ BatchesOf(Len(quest_ids)) = 3
    /\ DOMAIN quests = Range(quest_ids)

\* a run with an empty catalog went on without a batch request
C15_EmptyCatalogWitness ==
    /\ stage \in AfterQuestStage
    /\ Len(quest_ids) = 0
    /\ resolved >= 12


\* the requests of the stages before the aggregation loop
RequestsBeforeAggregation ==
    1 + Cardinality(character_names) + 10 + 1 + BatchesOf(Len(quest_ids))

(***************************************************************************)
(* C16.  The completed-quest request is issued exactly once for every      *)
(* selected character that the character table holds, never for a selected *)
(* character the table does not hold, and only after the character, season *)
(* and quest stages have completed.                                        *)
(***************************************************************************)
C16_CompletedFetchedOncePerFound ==
    /\ (fetched # {} \/ cur # {}) =>
         /\ stage \in AfterQuestStage
         /\ tasks = {} /\ todo = {}
         /\ DOMAIN characters = character_names
         /\ Cardinality(DOMAIN seasons) = 10
         /\ DOMAIN quests = Range(quest_ids)
    /\ fetched \subseteq Selected \cap DOMAIN characters
    /\ cur \subseteq Selected \cap DOMAIN characters
    /\ stage \in AfterQuestStage =>
         sent = RequestsBeforeAggregation + Cardinality(fetched)
    /\ stage \in {"write", "done"} => fetched = Selected \cap DOMAIN characters

\* a finished run selected two characters, one held by the account and one not,
\* and requested the completed quests of the first only
C16_Witness ==
    /\ stage = "done"
    /\ Cardinality(Selected) = 2
    /\ Cardinality(fetched) = 1
    /\ Selected \ DOMAIN characters # {}
    /\ sent = RequestsBeforeAggregation + 1


\* the run has ended: gw2.yaml is written, or the process has aborted
Terminated == stage \in {"done", "aborted"}

\* the stages that hold spawned requests
FanOutStages == {"chars", "seasons", "quests"}

(***************************************************************************)
(* C17.  Provided the limiter keeps admitting and every request in flight  *)
(* resolves or fails, every run ends, in exactly one of two ways: the      *)
(* output is written, or the process aborts on a fatal error with no       *)
(* output.  Nothing happens after either.  A spawned request leaves its    *)
(* stage only by being collected, one at a time, or by the abort of the    *)
(* whole run: no stage is left with requests in flight while the run goes  *)
(* on.                                                                     *)
(***************************************************************************)
C17_RunTerminates ==
    /\ <>Terminated
    /\ [](stage = "done" => (written = 1 /\ fatal = "none"))
    /\ [](stage = "aborted" => (written = 0 /\ fatal # "none"))
    /\ [](stage \notin {"done", "aborted"} => (written = 0 /\ fatal = "none"))
    /\ [][~Terminated]_vars
    /\ [][stage' # "aborted" =>
            /\ tasks' # tasks =>
                 \/ \E item \in todo : tasks' = tasks \cup {item}
                 \/ \E item \in tasks : tasks' = tasks \ {item}
            /\ (stage \in FanOutStages /\ stage' # stage) =>
                 (todo = {} /\ tasks' = {} /\ Cardinality(tasks) = 1)
         ]_vars

\* a run that ended with the output written after every stage had requests,
\* and had at one point three batch requests in flight
C17_Witness ==
    /\ stage = "done"
    /\ written = 1
    /\ fetched # {}
    /\ Len(quest_ids) > 2 * ChunkSize

\* a run that ended in an abort
C17_AbortedWitness ==
    /\ stage = "aborted"
    /\ failures = 1
    /\ written = 0


\* the members of game_options that aggregation writes
AggregationWrites == {"character", "triggers"}

(***************************************************************************)
(* C18.  Aggregation changes only two members of the default output        *)
(* document: the top-level character table and the trigger list.  However  *)
(* many characters have been aggregated, the top-level                     *)
(* character_profession, character_race and storyline tables are empty,    *)
(* every other top-level table and scalar holds its default value, and the *)
(* profession, race and storyline weights are found inside the Triggers.   *)
(***************************************************************************)
C18_AggregationFrame ==
    /\ DOMAIN output = DOMAIN OutputDefault
    /\ \A member \in DOMAIN output \ AggregationWrites :
         output[member] = OutputDefault[member]
    /\ output.character_profession = EmptyMap
    /\ output.character_race = EmptyMap
    /\ output.storyline = EmptyMap
    /\ output.required_mist_fragments = 10
    /\ output.extra_mist_fragments = 5
    /\ output.progression_balancing["normal"] = 50
    /\ \A n \in Aggregated :
         /\ DOMAIN Inner(CharacterTriggerOf(n)).character_profession # {}
         /\ DOMAIN Inner(CharacterTriggerOf(n)).character_race # {}
         /\ DOMAIN Inner(CharacterTriggerOf(n)).storyline
              = {KeyOf(s, n) : s \in EmittedStorylines(n)}

\* two characters have been aggregated, one of them with storyline Triggers,
\* and the output has been written
C18_Witness ==
    /\ stage = "done"
    /\ Cardinality(Aggregated) = 2
    /\ Cardinality(DOMAIN output.character) = 2
    /\ \E n \in Aggregated : DOMAIN Inner(CharacterTriggerOf(n)).storyline # {}
    /\ output.storyline = EmptyMap


(***************************************************************************)
(* C19.  The names whose core data is fetched are the account's list       *)
(* narrowed to the selection when the selection is not empty, and the      *)
(* whole account list when it is empty; the name set does not change       *)
(* afterwards, and the character stage fetches exactly these names.  With  *)
(* an empty selection the output has no character entry and no Trigger,    *)
(* although every character of the account was fetched.                    *)
(***************************************************************************)
C19_FetchedNames ==
    /\ [][(stage = "names" /\ step = "filter") =>
            character_names' = IF Selected # {}
                               THEN character_names \cap Selected
                               ELSE character_names]_vars
    /\ [][(~(stage = "names" /\ step \in {"recv", "filter"}) /\ stage' # "aborted") =>
            character_names' = character_names]_vars
    /\ [](stage = "chars" =>
            /\ DOMAIN characters \cup tasks \cup todo = character_names
            /\ character_names # {})
    /\ [](stage \in AfterCharacterStage => DOMAIN characters = character_names)
    /\ [](Selected = {} =>
            /\ output.character = EmptyMap
            /\ output.triggers = << >>
            /\ fetched = {})

\* a finished run with an empty selection fetched both characters of the
\* account and wrote a document with no character entry and no Trigger
C19_Witness ==
    /\ stage = "done"
    /\ Selected = {}
    /\ Cardinality(DOMAIN characters) = 2
    /\ output.character = EmptyMap
    /\ output.triggers = << >>
    /\ written = 1

\* the account's list holds a name the selection leaves out, before the filter
C19_FilterWitness ==
    /\ stage = "names"
    /\ step = "filter"
    /\ Selected # {}
    /\ character_names \ Selected # {}

=============================================================================
